---- MODULE Spec2Model ----
(***************************************************************************)
(* A model of cldfbench_mamtasouthasia.py: the label folding, the          *)
(* reference tables, the sheet validator, the row extractors and the two   *)
(* commands cmd_download and cmd_makecldf.                                 *)
(*                                                                         *)
(* A Python str is a sequence of characters; a character is a one-letter   *)
(* TLA+ string, or "U+XXXX"/"TAB" for a character outside printable ASCII. *)
(* A Python dict is a function; where the code iterates a dict, the model  *)
(* iterates the sequence its keys were inserted in.                        *)
(***************************************************************************)
EXTENDS Integers, Sequences, FiniteSets, TLC

VARIABLES
    name,               \* fold_name's argument (the label under test)
    folds,              \* the results of the successive fold_name calls
    glottolog_langs,    \* makecldf: Glottolog's languoids, by id
    data,               \* makecldf: the six csv tables, by sheet
    pc,                 \* makecldf: position in cmd_makecldf
    language_table,
    parameter_names,
    example_names,
    validated,          \* makecldf: number of validate_sheet calls that returned
    errors,             \* makecldf: the message of validate_sheet's failed assert
    exc,                \* makecldf: the exception that ended the run ("" for none)
    stderr,             \* makecldf: what was printed to sys.stderr
    example_table,
    value_examples,
    value_table,
    writer,             \* makecldf: args.writer.objects
    workbook,           \* download: the sheets of Mamta_added.xlsx
    dl_pc,              \* download: position in cmd_download
    sheet_i,            \* download: index of the sheet being exported
    row_i,              \* download: rows of that sheet written so far
    files,              \* download: the csv files on disk, by name
    raised              \* download: the AssertionError that ended the run

vars == <<name, folds, glottolog_langs, data, pc, language_table,
          parameter_names, example_names, validated, errors, exc, stderr,
          example_table, value_examples, value_table, writer, workbook, dl_pc, sheet_i,
          row_i, files, raised>>

foldVars == <<name, folds>>
makeVars == <<glottolog_langs, data, pc, language_table, parameter_names,
              example_names, validated, errors, exc, stderr, example_table,
              value_examples, value_table, writer>>
downloadVars == <<workbook, dl_pc, sheet_i, row_i, files, raised>>

----------------------------------------------------------------------------
(* Sequence helpers *)

RECURSIVE Concat(_)
Concat(ss) ==
    IF ss = <<>> THEN <<>> ELSE Head(ss) \o Concat(Tail(ss))

Range(s) == {s[i] : i \in DOMAIN s}

\* list.index(x): the first position of x (1-based here), 0 when absent
\* (where Python raises ValueError).
Index(s, x) ==
    IF x \in Range(s) THEN CHOOSE i \in DOMAIN s : s[i] = x /\ \A j \in 1..(i - 1) : s[j] # x
    ELSE 0

----------------------------------------------------------------------------
(* Characters *)

LowerLetters == <<"a","b","c","d","e","f","g","h","i","j","k","l","m","n","o","p","q","r","s","t","u","v","w","x","y","z">>
UpperLetters == <<"A","B","C","D","E","F","G","H","I","J","K","L","M","N","O","P","Q","R","S","T","U","V","W","X","Y","Z">>
Digits == <<"0","1","2","3","4","5","6","7","8","9">>

\* str.isascii, str.isalnum, str.isspace, str.isnumeric for one character.
\* U+00E9 is e-acute, U+0301 the combining acute, U+00A0 the no-break space,
\* U+00BD the vulgar fraction one half, U+2044 the fraction slash, U+FF21 the
\* fullwidth capital A.
NonAscii == {"U+00E9", "U+0301", "U+00A0", "U+00BD", "U+2044", "U+FF21"}
isascii(c) == c \notin NonAscii
isalnum(c) ==
    c \in Range(LowerLetters) \cup Range(UpperLetters) \cup Range(Digits)
          \cup {"U+00E9", "U+00BD", "U+FF21"}
isspace(c) == c \in {" ", "TAB", "U+00A0"}
isnumeric_char(c) == c \in Range(Digits) \cup {"U+00BD"}

\* str.lower for one character.
lower(c) ==
    IF c \in Range(UpperLetters) THEN LowerLetters[Index(UpperLetters, c)]
    ELSE c

\* unicodedata.normalize('NFKD', c) for one character.
NFKD_char(c) ==
    CASE c = "U+00E9" -> <<"e", "U+0301">>
      [] c = "U+00A0" -> <<" ">>
      [] c = "U+00BD" -> <<"1", "U+2044", "2">>
      [] c = "U+FF21" -> <<"A">>
      [] OTHER -> <<c>>

RECURSIVE NFKD(_)
NFKD(s) == IF s = <<>> THEN <<>> ELSE NFKD_char(Head(s)) \o NFKD(Tail(s))

----------------------------------------------------------------------------
(* slug, normalise_whitespace, fold_name *)

RECURSIVE slug_chars(_, _)
slug_chars(s, lowercase) ==
    IF s = <<>> THEN <<>>
    ELSE LET c == Head(s)
         IN  (IF isascii(c) /\ isalnum(c)
              THEN <<IF lowercase THEN lower(c) ELSE c>>
              ELSE <<>>) \o slug_chars(Tail(s), lowercase)

slug(s, lowercase) == slug_chars(NFKD(s), lowercase)

\* str.split(): the maximal runs of non-whitespace characters.
RECURSIVE split(_)
split(s) ==
    IF s = <<>> THEN <<>>
    ELSE IF isspace(Head(s)) THEN split(Tail(s))
    ELSE LET n == IF \E i \in DOMAIN s : isspace(s[i])
                  THEN (CHOOSE i \in DOMAIN s :
                            isspace(s[i]) /\ \A j \in 1..(i - 1) : ~isspace(s[j])) - 1
                  ELSE Len(s)
         IN  <<SubSeq(s, 1, n)>> \o split(SubSeq(s, n + 1, Len(s)))

\* sep.join(words)
RECURSIVE join(_, _)
join(sep, words) ==
    IF words = <<>> THEN <<>>
    ELSE IF Len(words) = 1 THEN Head(words)
    ELSE Head(words) \o sep \o join(sep, Tail(words))

\* str.strip()
RECURSIVE lstrip(_)
lstrip(s) == IF s # <<>> /\ isspace(Head(s)) THEN lstrip(Tail(s)) ELSE s
RECURSIVE rstrip(_)
rstrip(s) ==
    IF s # <<>> /\ isspace(s[Len(s)]) THEN rstrip(SubSeq(s, 1, Len(s) - 1)) ELSE s
strip(s) == rstrip(lstrip(s))

normalise_whitespace(s) == strip(join(<<" ">>, split(s)))

TYPO_MAP_chained ==
    (<<"t","w","e","l","v","t","h">> :> <<"t","w","e","l","f","t","h">>)
    @@ (<<"t","w","e","n","t","y","t","h">> :> <<"t","w","e","n","t","i","e","t","h">>)
    @@ (<<"f","o","r","t","h","m","a","n">> :> <<"f","o","u","r","t","h","m","a","n">>)
    @@ (<<"f","o","r","t","h","w","o","m","a","n">> :> <<"f","o","u","r","t","h","w","o","m","a","n">>)
    @@ (<<"i","a","t","e","1","1","6","o","f","t","h","r","p","i","z","z","a">> :> <<"i","a","t","e","1","1","6","o","f","t","h","e","p","i","z","z","a">>)
    @@ (<<"t","h","r","i","c","e">> :> <<"t","h","r","i","c","e","t","h","r","e","e","t","i","m","e","s">>)
    @@ (<<"f","o","r","t","h","t","i","m","e">> :> <<"f","o","u","r","t","i","m","e","s">>)
    @@ (<<"i","m","e","t","h","i","m","t","h","r","i","c","e">> :> <<"i","m","e","t","h","i","m","t","h","r","e","e","t","i","m","e","s">>)
    @@ (<<"i","m","e","t","h","i","m","f","o","r","t","h","t","i","m","e">> :> <<"i","m","e","t","h","i","m","f","o","u","r","t","i","m","e","s">>)
    @@ (<<"t","w","o","p","a","i","r","o","f","s","o","c","k","s">> :> <<"t","w","o","p","a","i","r","s","o","f","s","o","c","k","s">>)
    @@ (<<"p","a","i","r","o","f","s","o","c","k","s","a","r","e","l","y","i","n","g","h","e","r","e">> :> <<"a","p","a","i","r","o","f","s","o","c","k","s","a","r","e","l","y","i","n","g","h","e","r","e">>)
    @@ (<<"a","p","a","i","r","o","f","s","o","c","k","s","a","r","e","l","y","i","n","g","h","e","r","e">> :> <<"a","p","a","i","r","o","f","s","o","c","k","s","l","i","e","s","h","e","r","e">>)

TYPO_MAP ==
    (<<"t","w","e","l","v","t","h">> :> <<"t","w","e","l","f","t","h">>)
    @@ (<<"t","w","e","n","t","y","t","h">> :> <<"t","w","e","n","t","i","e","t","h">>)
    @@ (<<"f","o","r","t","h","m","a","n">> :> <<"f","o","u","r","t","h","m","a","n">>)
    @@ (<<"f","o","r","t","h","w","o","m","a","n">> :> <<"f","o","u","r","t","h","w","o","m","a","n">>)
    @@ (<<"i","a","t","e","1","1","6","o","f","t","h","r","p","i","z","z","a">> :> <<"i","a","t","e","1","1","6","o","f","t","h","e","p","i","z","z","a">>)
    @@ (<<"t","h","r","i","c","e">> :> <<"t","h","r","i","c","e","t","h","r","e","e","t","i","m","e","s">>)
    @@ (<<"f","o","r","t","h","t","i","m","e">> :> <<"f","o","u","r","t","i","m","e","s">>)
    @@ (<<"i","m","e","t","h","i","m","t","h","r","i","c","e">> :> <<"i","m","e","t","h","i","m","t","h","r","e","e","t","i","m","e","s">>)
    @@ (<<"i","m","e","t","h","i","m","f","o","r","t","h","t","i","m","e">> :> <<"i","m","e","t","h","i","m","f","o","u","r","t","i","m","e","s">>)
    @@ (<<"t","w","o","p","a","i","r","o","f","s","o","c","k","s">> :> <<"t","w","o","p","a","i","r","s","o","f","s","o","c","k","s">>)
    @@ (<<"p","a","i","r","o","f","s","o","c","k","s","a","r","e","l","y","i","n","g","h","e","r","e">> :> <<"a","p","a","i","r","o","f","s","o","c","k","s","a","r","e","l","y","i","n","g","h","e","r","e">>)

\* dict.get(key, default)
Get(d, key, default) == IF key \in DOMAIN d THEN d[key] ELSE default

fold_name(n) == Get(TYPO_MAP, slug(n, TRUE), slug(n, TRUE))

----------------------------------------------------------------------------
(* The csv tables: a table is a sequence of rows, a row a sequence of cells, *)
(* a cell a str.  Row 1 is the header (Python's data[0]), column 1 the       *)
(* identifier column (Python's column 0).                                    *)

Expressions == <<"E","x","p","r","e","s","s","i","o","n","s">>

\* str.isnumeric()
isnumeric(s) == s # <<>> /\ \A i \in DOMAIN s : isnumeric_char(s[i])

\* str.startswith(prefix)
startswith(s, prefix) ==
    Len(s) >= Len(prefix) /\ SubSeq(s, 1, Len(prefix)) = prefix

\* islice(data, 1, None)
DataRows(table) == SubSeq(table, 2, Len(table))

\* A dict comprehension {key(row): value(row) for row in rows}: a later row
\* with the same key overwrites an earlier one.
LastWith(rows, keys, k) ==
    CHOOSE i \in DOMAIN rows :
        keys[i] = k /\ \A j \in (i + 1)..Len(rows) : keys[j] # k

read_language_names(table) ==
    LET header == table[1]
        name_col == Index(header, <<"N","a","m","e">>)
        gc_col == Index(header, <<"G","l","o","t","t","o","c","o","d","e">>)
        rows == SelectSeq(DataRows(table),
                          LAMBDA row : row # <<>> /\ \E i \in DOMAIN row : row[i] # <<>>)
        keys == [i \in DOMAIN rows |-> rows[i][name_col]]
    IN  [k \in Range(keys) |-> rows[LastWith(rows, keys, k)][gc_col]]

\* The order in which a dict built from rows iterates: each key where it was
\* first inserted.
RECURSIVE InsertionOrder(_)
InsertionOrder(keys) ==
    IF keys = <<>> THEN <<>>
    ELSE LET rest == InsertionOrder(SubSeq(keys, 1, Len(keys) - 1))
             k == keys[Len(keys)]
         IN  IF k \in Range(rest) THEN rest ELSE Append(rest, k)

language_names_order(table) ==
    LET header == table[1]
        name_col == Index(header, <<"N","a","m","e">>)
        rows == SelectSeq(DataRows(table),
                          LAMBDA row : row # <<>> /\ \E i \in DOMAIN row : row[i] # <<>>)
    IN  InsertionOrder([i \in DOMAIN rows |-> rows[i][name_col]])

\* Returns the language id, or <<>> for None (both are falsy); the second
\* component is what it prints to stderr.
lookup_language(language_names, lname, sheet_name) ==
    IF Get(language_names, lname, <<>>) # <<>>
    THEN [id |-> language_names[lname], stderr |-> <<>>]
    ELSE IF lname # <<>>
    THEN [id |-> <<>>, stderr |-> <<[sheet |-> sheet_name, unknown |-> lname]>>]
    ELSE [id |-> <<>>, stderr |-> <<>>]

get_parameter_names(table) ==
    LET header == table[1]
        name_col == Index(header, Expressions)
        rows == SelectSeq(DataRows(table), LAMBDA row : isnumeric(strip(row[1])))
        keys == [i \in DOMAIN rows |-> fold_name(rows[i][name_col])]
    IN  [k \in Range(keys) |->
            LET row == rows[LastWith(rows, keys, k)]
            IN  [id |-> strip(row[1]), name |-> normalise_whitespace(row[name_col])]]

\* id_.split(' ', maxsplit=1)[1] for an id_ that starts with 'ex '
AfterFirstSpace(s) == SubSeq(s, Index(s, " ") + 1, Len(s))

get_example_names(table) ==
    LET header == table[1]
        name_col == Index(header, Expressions)
        rows == SelectSeq(DataRows(table),
                          LAMBDA row : /\ startswith(strip(row[1]), <<"e","x"," ">>)
                                       /\ AfterFirstSpace(strip(row[1])) # <<>>)
        keys == [i \in DOMAIN rows |-> fold_name(rows[i][name_col])]
    IN  [k \in Range(keys) |->
            LET row == rows[LastWith(rows, keys, k)]
            IN  [param_id |-> AfterFirstSpace(strip(row[1])),
                 translation |-> normalise_whitespace(row[name_col])]]

section_headers ==
    { <<"C","a","r","d","i","n","a","l","s"," ","(","V","a","l","u","e","s",")">>, <<"C","a","r","d","i","n","a","l","s"," ","(","E","x","a","m","p","l","e","s",")">>,
      <<"O","r","d","i","n","a","l","s"," ","(","V","a","l","u","e","s",")">>, <<"O","r","d","i","n","a","l","s"," ","(","E","x","a","m","p","l","e","s",")">>,
      <<"F","r","a","c","t","i","o","n","s"," ","(","V","a","l","u","e","s",")">>, <<"F","r","a","c","t","i","o","n","s"," ","(","E","x","a","m","p","l","e","s",")">>,
      <<"M","u","l","t","i","p","l","i","c","a","t","i","v","e","s"," ","(","V","a","l","u","e","s",")">>, <<"M","u","l","t","i","p","l","i","c","a","t","i","v","e","s"," ","(","E","x","a","m","p","l","e","s",")">>,
      <<"A","g","g","r","e","g","a","t","i","v","e","s"," ","(","V","a","l","u","e","s",")">>, <<"A","g","g","r","e","g","a","t","i","v","e","s"," ","(","E","x","a","m","p","l","e","s",")">>,
      <<"A","p","p","r","o","x","i","m","a","t","i","v","e","s"," ","(","V","a","l","u","e","s",")">>, <<"A","p","p","r","o","x","i","m","a","t","i","v","e","s"," ","(","E","x","a","m","p","l","e","s",")">>,
      <<"C","o","l","l","e","c","t","i","v","e","s"," ","(","V","a","l","u","e","s",")">>, <<"C","o","l","l","e","c","t","i","v","e","s"," ","(","E","x","a","m","p","l","e","s",")">>,
      <<"D","i","s","t","r","i","b","u","t","i","v","e","s"," ","(","V","a","l","u","e","s",")">>, <<"M","u","l","t","i","p","l","i","a","t","i","v","e","s"," ","(","E","x","a","m","p","l","e","s",")">>,
      <<"R","e","s","t","r","i","c","t","i","v","e","s"," ","(","V","a","l","u","e","s",")">>, <<"R","e","s","t","r","i","c","t","i","v","e","s"," ","(","E","x","a","m","p","l","e","s",")">>,
      <<"R","e","s","t","r","i","c","t","i","v","e"," ","(","E","x","a","m","p","l","e","s",")">> }

_is_good(n, pnames, enames) ==
    \/ fold_name(n) \in DOMAIN pnames
    \/ fold_name(n) \in DOMAIN enames
    \/ n \in section_headers

\* validate_sheet as it would be if it stopped at the first unknown label.
validate_sheet_first_only(table, pnames, enames) ==
    LET header == table[1]
        name_col == Index(header, Expressions)
        names == [i \in DOMAIN DataRows(table) |->
                     normalise_whitespace(DataRows(table)[i][name_col])]
        bad == SelectSeq(names, LAMBDA n : n # <<>> /\ ~_is_good(n, pnames, enames))
    IN  IF bad = <<>> THEN <<>> ELSE <<bad[1]>>

\* The list `errors` of validate_sheet; its assert fails when it is not empty,
\* with the message '\n'.join(errors).
validate_sheet(table, pnames, enames) ==
    LET header == table[1]
        name_col == Index(header, Expressions)
        names == [i \in DOMAIN DataRows(table) |->
                     normalise_whitespace(DataRows(table)[i][name_col])]
    IN  SelectSeq(names, LAMBDA n : n # <<>> /\ ~_is_good(n, pnames, enames))

make_languages(language_names, order, glottolog) ==
    [i \in DOMAIN order |->
        LET language_id == language_names[order[i]]
            lg == glottolog[language_id]
        IN  [ID |-> language_id,
             Name |-> order[i],
             Glottocode |-> language_id,
             ISO639P3code |-> lg.iso,
             Latitude |-> lg.latitude,
             Longitude |-> lg.longitude,
             Macroarea |-> IF lg.macroareas # <<>> THEN lg.macroareas[1] ELSE ""]]

\* lg_cols of make_examples: the (column, language id) pairs of the header,
\* leaving out column 0 (here 1), the name column and the columns whose header
\* lookup_language does not know.
lg_cols_examples(header, language_names, sheet_name) ==
    LET name_col == Index(header, Expressions)
        cols == [i \in 1..(Len(header) - 1) |->
                    [i |-> i + 1,
                     language_id |->
                         lookup_language(language_names, header[i + 1], sheet_name).id]]
    IN  SelectSeq(cols, LAMBDA c : c.i # name_col /\ c.language_id # <<>>)

\* lg_cols of make_values, which asks language_names itself.
lg_cols_values(header, language_names) ==
    LET name_col == Index(header, Expressions)
        cols == [i \in 1..(Len(header) - 1) |->
                    [i |-> i + 1,
                     language_id |-> Get(language_names, header[i + 1], <<>>)]]
    IN  SelectSeq(cols, LAMBDA c : c.i # name_col /\ c.language_id # <<>>)

\* What make_examples prints through lookup_language.
make_examples_stderr(table, language_names, sheet_name) ==
    LET header == table[1]
        name_col == Index(header, Expressions)
    IN  Concat([i \in 1..(Len(header) - 1) |->
                   IF i + 1 # name_col
                   THEN lookup_language(language_names, header[i + 1], sheet_name).stderr
                   ELSE <<>>])

\* The (row, column) pairs the comprehension of make_examples emits a row
\* for, in the order it emits them: r is the row's index in the table, i the
\* column's.
example_cells(table, enames, language_names, sheet_name) ==
    LET header == table[1]
        name_col == Index(header, Expressions)
        cols == lg_cols_examples(header, language_names, sheet_name)
    IN  Concat([r0 \in 1..(Len(table) - 1) |->
            LET r == r0 + 1
            IN  IF fold_name(table[r][name_col]) \in DOMAIN enames
                THEN Concat([k \in DOMAIN cols |->
                        LET primary == normalise_whitespace(table[r][cols[k].i])
                        IN  IF primary # <<>> /\ primary # <<"-">>
                            THEN <<[r |-> r, i |-> cols[k].i,
                                    language_id |-> cols[k].language_id]>>
                            ELSE <<>>])
                ELSE <<>>])

\* make_examples as it would be if the ID were made from the cell's text.
make_examples_id_from_cell(table, enames, language_names, sheet_name) ==
    LET name_col == Index(table[1], Expressions)
        cells == example_cells(table, enames, language_names, sheet_name)
    IN  [n \in DOMAIN cells |->
            LET row == table[cells[n].r]
                ex_row == enames[fold_name(row[name_col])]
            IN  [ID |-> cells[n].language_id \o <<"-">> \o slug(row[cells[n].i], TRUE),
                 Language_ID |-> cells[n].language_id,
                 Primary_Text |-> normalise_whitespace(row[cells[n].i]),
                 Translated_Text |-> ex_row.translation,
                 Parameter_ID |-> ex_row.param_id]]

make_examples(table, enames, language_names, sheet_name) ==
    LET name_col == Index(table[1], Expressions)
        cells == example_cells(table, enames, language_names, sheet_name)
    IN  [n \in DOMAIN cells |->
            LET row == table[cells[n].r]
                ex_row == enames[fold_name(row[name_col])]
            IN  [ID |-> cells[n].language_id \o <<"-">> \o slug(row[name_col], TRUE),
                 Language_ID |-> cells[n].language_id,
                 Primary_Text |-> normalise_whitespace(row[cells[n].i]),
                 Translated_Text |-> ex_row.translation,
                 Parameter_ID |-> ex_row.param_id]]

\* assoc_value_examples as it would be if it grouped by parameter alone.
assoc_by_parameter(examples) ==
    LET keys == {<<examples[n].Language_ID, examples[n].Parameter_ID>> :
                     n \in DOMAIN examples}
    IN  [k \in keys |->
            LET mine == SelectSeq(examples, LAMBDA e : e.Parameter_ID = k[2])
            IN  [n \in DOMAIN mine |-> mine[n].ID]]

assoc_value_examples(examples) ==
    LET keys == {<<examples[n].Language_ID, examples[n].Parameter_ID>> :
                     n \in DOMAIN examples}
    IN  [k \in keys |->
            LET mine == SelectSeq(examples,
                            LAMBDA e : <<e.Language_ID, e.Parameter_ID>> = k)
            IN  [n \in DOMAIN mine |-> mine[n].ID]]

\* value_cells as it would be if only empty cells were skipped.
value_cells_keep_placeholder(table, pnames, language_names) ==
    LET header == table[1]
        name_col == Index(header, Expressions)
        cols == lg_cols_values(header, language_names)
    IN  Concat([r \in 1..Len(table) |->
            IF fold_name(table[r][name_col]) \in DOMAIN pnames
            THEN Concat([k \in DOMAIN cols |->
                    LET value == normalise_whitespace(table[r][cols[k].i])
                    IN  IF value # <<>>
                        THEN <<[r |-> r, i |-> cols[k].i,
                                language_id |-> cols[k].language_id]>>
                        ELSE <<>>])
            ELSE <<>>])

\* As example_cells, for make_values, whose comprehension runs over every row
\* of data, the header row included.
value_cells(table, pnames, language_names) ==
    LET header == table[1]
        name_col == Index(header, Expressions)
        cols == lg_cols_values(header, language_names)
    IN  Concat([r \in 1..Len(table) |->
            IF fold_name(table[r][name_col]) \in DOMAIN pnames
            THEN Concat([k \in DOMAIN cols |->
                    LET value == normalise_whitespace(table[r][cols[k].i])
                    IN  IF value # <<>> /\ value # <<"-">>
                        THEN <<[r |-> r, i |-> cols[k].i,
                                language_id |-> cols[k].language_id]>>
                        ELSE <<>>])
            ELSE <<>>])

make_values(table, pnames, language_names, vexamples) ==
    LET name_col == Index(table[1], Expressions)
        cells == value_cells(table, pnames, language_names)
    IN  [n \in DOMAIN cells |->
            LET row == table[cells[n].r]
                param_row == pnames[fold_name(row[name_col])]
            IN  [ID |-> param_row.id \o <<"-">> \o cells[n].language_id,
                 Language_ID |-> cells[n].language_id,
                 Parameter_ID |-> param_row.id,
                 Value |-> normalise_whitespace(row[cells[n].i]),
                 Example_IDs |-> Get(vexamples,
                                     <<cells[n].language_id, param_row.id>>, <<>>)]]

\* normalise_csv: a csv row read as a dict is a sequence of (key, value)
\* pairs here.
normalise_csv(table) ==
    [r \in DOMAIN table |->
        LET kept == SelectSeq(table[r],
                        LAMBDA kv : strip(kv[1]) # <<>> /\ strip(kv[2]) # <<>>)
        IN  [n \in DOMAIN kept |-> <<strip(kept[n][1]), strip(kept[n][2])>>]]

----------------------------------------------------------------------------
(* The inputs of cmd_makecldf *)

\* Bounds: the number of data rows of the Indo-Aryan sheet and of the
\* Sino-Tibetan sheet.
MaxCanonRows == 2
MaxFamilyRows == 3

SheetOrder ==
    <<"IndoAryan", "SinoTibetan", "SinoTibetanKiranti", "AustroAsiatic",
      "Dravidian", "TaiKadai">>

\* The sheet_name cmd_makecldf passes to make_examples.
SheetTitle ==
    [IndoAryan |-> "Indo-Aryan", SinoTibetan |-> "Sino-Tibetan",
     SinoTibetanKiranti |-> "Sino-Tibetan-Kiranti",
     AustroAsiatic |-> "Austro-Asiatic", Dravidian |-> "Dravidian",
     TaiKadai |-> "Tai-Kadai"]

\* raw/csv-export/Mamta_added.Languages.csv
languages_csv ==
    << <<<<"N","a","m","e">>, <<"G","l","o","t","t","o","c","o","d","e">>>>,
       <<<<"L","a","n","g","W">>, <<"L","a","n","g","W","_","I","D">>>>,
       <<<<"L","a","n","g","X">>, <<"L","a","n","g","X","_","I","D">>>>,
       <<<<>>, <<>>>>,
       <<<<"L","a","n","g","Y">>, <<"L","a","n","g","Y","_","I","D">>>>,
       <<<<"L","a","n","g","K">>, <<"L","a","n","g","K","_","I","D">>>>,
       <<<<"L","a","n","g","A">>, <<"L","a","n","g","A","_","I","D">>>>,
       <<<<"L","a","n","g","D">>, <<"L","a","n","g","D","_","I","D">>>>,
       <<<<"L","a","n","g","Z">>, <<"L","a","n","g","Z","_","I","D">>>> >>

language_names == read_language_names(languages_csv)

\* etc/parameters.csv, each row a dict
parameters_csv ==
    << << <<<<"I","D">>, <<"1">>>>, <<<<" ","D","e","s","c","r","i","p","t","i","o","n">>, <<"t","h","e"," ","n","u","m","e","r","a","l"," ","o","n","e"," ">>>>, <<<<"C","o","m","m","e","n","t">>, <<" ">>>> >>,
       << <<<<"I","D">>, <<"1","2">>>>, <<<<"D","e","s","c","r","i","p","t","i","o","n">>, <<>>>>, <<<<>>, <<"x">>>> >> >>

Languoid(iso, areas) ==
    [iso |-> iso, latitude |-> 27, longitude |-> 85, macroareas |-> areas]

\* What args.glottolog.api.languoids returns: every configured language, or
\* all but one of them.
GlottologChoices ==
    { (<<"L","a","n","g","W","_","I","D">> :> Languoid("lgw", <<"Eurasia">>))
        @@ (<<"L","a","n","g","X","_","I","D">> :> Languoid("lgx", <<"Eurasia", "Papunesia">>))
        @@ (<<"L","a","n","g","Y","_","I","D">> :> Languoid("", <<>>))
        @@ (<<"L","a","n","g","K","_","I","D">> :> Languoid("lgk", <<"Eurasia">>))
        @@ (<<"L","a","n","g","A","_","I","D">> :> Languoid("lga", <<"Eurasia">>))
        @@ (<<"L","a","n","g","D","_","I","D">> :> Languoid("lgd", <<"Eurasia">>))
        @@ (<<"L","a","n","g","Z","_","I","D">> :> Languoid("lgz", <<"Eurasia">>)),
      (<<"L","a","n","g","W","_","I","D">> :> Languoid("lgw", <<"Eurasia">>))
        @@ (<<"L","a","n","g","X","_","I","D">> :> Languoid("lgx", <<"Eurasia">>))
        @@ (<<"L","a","n","g","K","_","I","D">> :> Languoid("lgk", <<"Eurasia">>))
        @@ (<<"L","a","n","g","A","_","I","D">> :> Languoid("lga", <<"Eurasia">>))
        @@ (<<"L","a","n","g","D","_","I","D">> :> Languoid("lgd", <<"Eurasia">>))
        @@ (<<"L","a","n","g","Z","_","I","D">> :> Languoid("lgz", <<"Eurasia">>)) }

CanonHeader == <<<<>>, Expressions, <<"L","a","n","g","W">>, <<>>>>
FamilyHeader == <<<<>>, Expressions, <<"L","a","n","g","X">>, <<"N","o","b","o","d","y">>, <<"L","a","n","g","Y">>>>
KirantiHeader == <<<<>>, Expressions, <<"L","a","n","g","K">>>>
AustroAsiaticHeader == <<<<>>, Expressions, <<"L","a","n","g","A">>>>
DravidianHeader == <<<<>>, Expressions, <<"L","a","n","g","D">>>>
TaiKadaiHeader == <<<<>>, Expressions, <<"L","a","n","g","Z">>>>

\* The rows the Indo-Aryan sheet is drawn from: a parameter, an example
\* template, a parameter whose label is a known typo, an example template whose
\* label folds to a parameter's key, a parameter labelled like the header and a
\* label defined nowhere.
CanonMaster ==
    << <<<<"1">>, <<"o","n","e">>, <<"e","k">>, <<>>>>,
       <<<<"e","x"," ","1">>, <<"o","n","e"," ","(","e","x",")">>, <<"e","k"," ","u","d","a","h","a","r","a","n">>, <<>>>>,
       <<<<" ","1","2"," ">>, <<"T","w","e","l","v","t","h">>, <<"b","a","r","a","h","v","a","n">>, <<>>>>,
       <<<<"e","x"," ","1">>, <<"O","n","e">>, <<"-">>, <<>>>>,
       <<<<"2">>, <<"E","x","p","r","e","s","s","i","o","n","s">>, <<>>, <<>>>>,
       <<<<"x">>, <<"b","o","g","u","s">>, <<"k","u","c","h">>, <<>>>> >>

\* The rows the Sino-Tibetan sheet is drawn from.
FamilyMaster ==
    << <<<<"1">>, <<" ","o","n","e"," ">>, <<"e","k","a">>, <<"x">>, <<"-">>>>,
       <<<<>>, <<"O","n","e">>, <<" ","e","k","a","m"," ">>, <<>>, <<"e","k","k">>>>,
       <<<<"e","x"," ","1">>, <<"o","n","e"," ","(","e","x",")">>, <<"e","k","a"," ","u","d","a","h","a","r","a","n">>, <<>>, <<>>>>,
       <<<<"e","x"," ","1">>, <<"O","n","e"," "," ","(","e","x",")">>, <<"e","k","a","TAB","d","v","i","t","i","y","a">>, <<"y">>, <<" ","-"," ">>>>,
       <<<<"1","2">>, <<"t","w","e","l","f","t","h">>, <<"d","v","a","d","a","s","a">>, <<>>, <<"U+00A0">>>>,
       <<<<>>, <<"C","a","r","d","i","n","a","l","s"," "," ","(","V","a","l","u","e","s",")">>, <<>>, <<>>, <<>>>>,
       <<<<>>, <<"c","a","r","d","i","n","a","l","s"," ","(","v","a","l","u","e","s",")">>, <<>>, <<>>, <<"s","t","r","a","y">>>>,
       <<<<>>, <<"b","o","g","u","s">>, <<"x">>, <<>>, <<>>>> >>

\* What the last four sheets hold: nothing but their header; an unknown label
\* in the Dravidian sheet; a section header, a value, an example and a row
\* without a label in the Tai-Kadai sheet.
TailChoices ==
    { << <<KirantiHeader>>, <<AustroAsiaticHeader>>, <<DravidianHeader>>,
         <<TaiKadaiHeader>> >>,
      << <<KirantiHeader>>, <<AustroAsiaticHeader>>,
         <<DravidianHeader, <<<<>>, <<"n","o","n","s","e","n","s","e">>, <<"z">>>>>>, <<TaiKadaiHeader>> >>,
      << <<KirantiHeader>>, <<AustroAsiaticHeader>>, <<DravidianHeader>>,
         <<TaiKadaiHeader, <<<<>>, <<"C","a","r","d","i","n","a","l","s"," ","(","E","x","a","m","p","l","e","s",")">>, <<>>>>,
           <<<<"1">>, <<"O","N","E">>, <<"e","k","h">>>>, <<<<"e","x"," ","1">>, <<"o","n","e"," ","(","e","x",")">>, <<"e","k","h"," ","u","d","a","h","a","r","a","n">>>>,
           <<<<>>, <<" ">>, <<"s","t","r","a","y">>>>>> >> }

\* The rows of master at the positions in S, in master's order.
RECURSIVE Pick(_, _)
Pick(master, S) ==
    IF S = {} THEN <<>>
    ELSE LET m == CHOOSE i \in S : \A j \in S : i <= j
         IN  <<master[m]>> \o Pick(master, S \ {m})

SheetsFrom(header, master, max) ==
    { <<header>> \o Pick(master, S) :
        S \in {T \in SUBSET DOMAIN master : Cardinality(T) <= max} }

NoTable == <<>>
NoDict == <<>>

InitMakeIdle ==
    /\ glottolog_langs = NoDict
    /\ data = NoDict
    /\ pc = "idle"
    /\ language_table = NoTable
    /\ parameter_names = NoDict
    /\ example_names = NoDict
    /\ validated = 0
    /\ errors = <<>>
    /\ exc = ""
    /\ stderr = <<>>
    /\ example_table = NoTable
    /\ value_examples = NoDict
    /\ value_table = NoTable
    /\ writer = [cldf |-> {"ValueTable"}, objects |-> NoDict]

InitFoldIdle ==
    /\ name = <<>>
    /\ folds = <<>>

----------------------------------------------------------------------------
(* cmd_makecldf *)

InitMake ==
    /\ glottolog_langs = NoDict
    /\ \E canon \in SheetsFrom(CanonHeader, CanonMaster, MaxCanonRows),
          family \in SheetsFrom(FamilyHeader, FamilyMaster, MaxFamilyRows),
          tail \in TailChoices :
          data = [s \in Range(SheetOrder) |->
                     CASE s = "IndoAryan" -> canon
                       [] s = "SinoTibetan" -> family
                       [] OTHER -> tail[Index(SheetOrder, s) - 2]]
    /\ pc = "start"
    /\ language_table = NoTable
    /\ parameter_names = NoDict
    /\ example_names = NoDict
    /\ validated = 0
    /\ errors = <<>>
    /\ exc = ""
    /\ stderr = <<>>
    /\ example_table = NoTable
    /\ value_examples = NoDict
    /\ value_table = NoTable
    /\ writer = [cldf |-> {"ValueTable"}, objects |-> NoDict]

\* Lines 320-341: read the csv files, look the languages up in Glottolog,
\* build the language table and the two reference tables.  make_languages
\* raises KeyError for a language Glottolog does not return.
BuildTables ==
    /\ pc = "start"
    /\ glottolog_langs' \in GlottologChoices
    /\ IF \E n \in DOMAIN language_names : language_names[n] \notin DOMAIN glottolog_langs'
       THEN /\ pc' = "failed"
            /\ exc' = "KeyError"
            /\ UNCHANGED <<language_table, parameter_names, example_names>>
       ELSE /\ language_table' =
                   make_languages(language_names, language_names_order(languages_csv),
                                  glottolog_langs')
            /\ parameter_names' = get_parameter_names(data["IndoAryan"])
            /\ example_names' = get_example_names(data["IndoAryan"])
            /\ pc' = "validate"
            /\ exc' = exc
    /\ UNCHANGED <<data, validated, errors, stderr, example_table,
                   value_examples, value_table, writer>>
    /\ UNCHANGED <<foldVars, downloadVars>>

\* Lines 344-349: one validate_sheet call; its assert ends the run.
Validate ==
    /\ pc = "validate"
    /\ LET sheet == SheetOrder[validated + 1]
           errs == validate_sheet(data[sheet], parameter_names, example_names)
       IN  IF errs # <<>>
           THEN /\ errors' = errs
                /\ exc' = "AssertionError"
                /\ pc' = "failed"
                /\ validated' = validated
           ELSE /\ validated' = validated + 1
                /\ pc' = IF validated + 1 = Len(SheetOrder) THEN "examples" ELSE "validate"
                /\ UNCHANGED <<errors, exc>>
    /\ UNCHANGED <<glottolog_langs, data, language_table, parameter_names,
                   example_names, stderr, example_table, value_examples,
                   value_table, writer>>
    /\ UNCHANGED <<foldVars, downloadVars>>

\* Lines 351-358
MakeExampleTable ==
    /\ pc = "examples"
    /\ example_table' =
           Concat([k \in DOMAIN SheetOrder |->
                      make_examples(data[SheetOrder[k]], example_names, language_names,
                                    SheetTitle[SheetOrder[k]])])
    /\ stderr' = stderr \o
           Concat([k \in DOMAIN SheetOrder |->
                      make_examples_stderr(data[SheetOrder[k]], language_names,
                                           SheetTitle[SheetOrder[k]])])
    /\ pc' = "assoc"
    /\ UNCHANGED <<glottolog_langs, data, language_table, parameter_names,
                   example_names, validated, errors, exc, value_examples,
                   value_table, writer>>
    /\ UNCHANGED <<foldVars, downloadVars>>

\* Line 360
AssocValueExamples ==
    /\ pc = "assoc"
    /\ value_examples' = assoc_value_examples(example_table)
    /\ pc' = "values"
    /\ UNCHANGED <<glottolog_langs, data, language_table, parameter_names,
                   example_names, validated, errors, exc, stderr, example_table,
                   value_table, writer>>
    /\ UNCHANGED <<foldVars, downloadVars>>

\* Lines 361-368
MakeValueTable ==
    /\ pc = "values"
    /\ value_table' =
           Concat([k \in DOMAIN SheetOrder |->
                      make_values(data[SheetOrder[k]], parameter_names, language_names,
                                  value_examples)])
    /\ pc' = "write"
    /\ UNCHANGED <<glottolog_langs, data, language_table, parameter_names,
                   example_names, validated, errors, exc, stderr, example_table,
                   value_examples, writer>>
    /\ UNCHANGED <<foldVars, downloadVars>>

\* update_cldf_schema: the components and the column it adds.
update_cldf_schema(cldf) ==
    cldf \cup {"LanguageTable", "ParameterTable", "ExampleTable", "ValueTable.Example_IDs"}

\* Lines 372-377
WriteDataset ==
    /\ pc = "write"
    /\ writer' = [cldf |-> update_cldf_schema(writer.cldf),
                  objects |-> [LanguageTable |-> language_table,
                               ParameterTable |-> normalise_csv(parameters_csv),
                               ValueTable |-> value_table,
                               ExampleTable |-> example_table]]
    /\ pc' = "done"
    /\ UNCHANGED <<glottolog_langs, data, language_table, parameter_names,
                   example_names, validated, errors, exc, stderr, example_table,
                   value_examples, value_table>>
    /\ UNCHANGED <<foldVars, downloadVars>>

----------------------------------------------------------------------------
(* cmd_download: the cells of the workbook and their export to csv *)

\* A cell is [type, num, month, day, text, number_format]: cell.value is num
\* for an "int", num ten-thousandths for a "float" (0.5 is 5000), the date
\* month/day for a "datetime", text for a "str" and None for a "NoneType".
Cell(type, num, month, day, text, fmt) ==
    [type |-> type, num |-> num, month |-> month, day |-> day, text |-> text,
     number_format |-> fmt]
IntCell(v, fmt) == Cell("int", v, 0, 0, <<>>, fmt)
FloatCell(e4, fmt) == Cell("float", e4, 0, 0, <<>>, fmt)
DateCell(m, d, fmt) == Cell("datetime", 0, m, d, <<>>, fmt)
StrCell(s) == Cell("str", 0, 0, 0, s, "General")
NoneCell == Cell("NoneType", 0, 0, 0, <<>>, "General")

FloatScale == 10000

Abs(n) == IF n < 0 THEN -n ELSE n

\* str(n) for a natural number n
RECURSIVE NatToStr(_)
NatToStr(n) ==
    IF n < 10 THEN <<Digits[n + 1]>>
    ELSE NatToStr(n \div 10) \o <<Digits[(n % 10) + 1]>>

\* str(n) for an int n
IntToStr(n) == IF n < 0 THEN <<"-">> \o NatToStr(-n) ELSE NatToStr(n)

\* The digits of the fraction f / FloatScale (0 <= f < FloatScale) without
\* trailing zeros, at least one digit.
RECURSIVE FractionDigits(_, _)
FractionDigits(f, scale) ==
    IF scale = 10 THEN <<Digits[f + 1]>>
    ELSE IF f % (scale \div 10) = 0 THEN <<Digits[(f \div (scale \div 10)) + 1]>>
    ELSE <<Digits[(f \div (scale \div 10)) + 1]>>
             \o FractionDigits(f % (scale \div 10), scale \div 10)

\* str(x) for a float x of e4 ten-thousandths (repr's shortest decimal form)
FloatToStr(e4) ==
    (IF e4 < 0 THEN <<"-">> ELSE <<>>)
        \o NatToStr(Abs(e4) \div FloatScale) \o <<".">>
        \o FractionDigits(Abs(e4) % FloatScale, FloatScale)

\* int(x): truncation towards zero of num / den (den > 0)
Trunc(num, den) == IF num < 0 THEN -((-num) \div den) ELSE num \div den

\* abs(n - (enum / denom)) < 0.0001, in exact arithmetic
_fraction_to_str(e4, enum, denom) ==
    IF Abs(e4 * denom - enum * FloatScale) < denom
    THEN NatToStr(enum) \o <<"/">> \o NatToStr(denom)
    ELSE <<>>

\* The candidates in the order of the `or` chain.
FractionCandidates ==
    << <<1, 2>>, <<1, 2>>, <<2, 3>>, <<1, 4>>, <<3, 4>>, <<1, 5>>, <<3, 5>>,
       <<2, 6>>, <<2, 7>>, <<3, 7>>, <<1, 10>>, <<1, 16>> >>

\* <<>> is the failed `assert s, n`.
_float_to_fraction(e4) ==
    LET hits == SelectSeq(FractionCandidates,
                          LAMBDA c : _fraction_to_str(e4, c[1], c[2]) # <<>>)
    IN  IF hits = <<>> THEN <<>> ELSE _fraction_to_str(e4, hits[1][1], hits[1][2])

Returns(s) == [ok |-> TRUE, str |-> s]
Raises == [ok |-> FALSE, str |-> <<>>]

\* `not cell.value`: None, 0, 0.0 and '' are falsy; a datetime never is.
Falsy(cell) ==
    CASE cell.type = "NoneType" -> TRUE
      [] cell.type \in {"int", "float"} -> cell.num = 0
      [] cell.type = "str" -> cell.text = <<>>
      [] OTHER -> FALSE

_cell_str_truthy(cell) ==
    IF cell.type = "int"
    THEN IF cell.number_format \in {"General", "# ?/?"}
         THEN Returns(IntToStr(cell.num))
         ELSE Raises
    ELSE IF cell.type = "float"
    THEN IF cell.number_format = "General"
         THEN Returns(FloatToStr(cell.num))
         ELSE IF cell.number_format = "# ?/?"
         THEN IF _float_to_fraction(cell.num) # <<>>
              THEN Returns(_float_to_fraction(cell.num))
              ELSE Raises
         ELSE IF cell.number_format = "# ??/16"
         THEN Returns(IntToStr(Trunc(cell.num * 16, FloatScale)) \o <<"/","1","6">>)
         ELSE Raises
    ELSE IF cell.type = "datetime"
    THEN IF cell.number_format = "m/d"
         THEN Returns(NatToStr(cell.month) \o <<"/">> \o NatToStr(cell.day))
         ELSE Raises
    ELSE Returns(strip(cell.text))

_cell_str(cell) ==
    IF Falsy(cell) THEN Returns(<<>>) ELSE _cell_str_truthy(cell)

\* Bound: the number of rows of a sheet of the workbook.
MaxSheetRows == 2

\* The rows the sheets of the workbook are drawn from.
CellRowMaster ==
    << <<StrCell(<<" ","E","x","p","r","e","s","s","i","o","n","s">>), StrCell(<<"L","a","n","g","X"," ">>)>>,
       <<IntCell(1, "General"), NoneCell>>,
       <<IntCell(0, "General"), IntCell(0, "0.00")>>,
       <<IntCell(-7, "# ?/?"), IntCell(12, "0.00")>>,
       <<FloatCell(5000, "# ?/?"), FloatCell(6667, "# ?/?")>>,
       <<FloatCell(625, "# ?/?"), FloatCell(3000, "# ?/?")>>,
       <<FloatCell(25000, "General"), FloatCell(3125, "# ??/16")>>,
       <<FloatCell(0, "0.0"), DateCell(3, 4, "m/d")>>,
       <<StrCell(<<>>), DateCell(3, 4, "yyyy-mm-dd")>>,
       <<FloatCell(10000, "General"), FloatCell(15, "0.00%")>> >>

SheetTitles == <<<<"I","n","d","o","-","A","r","y","a","n">>, <<"S","i","n","o","-","T","i","b","e","t","a","n">>>>

\* What the second sheet holds: nothing; a row that exports and a row that
\* does not; two rows that export.
SecondSheetChoices ==
    { <<>>,
      << <<StrCell(<<"E","x","p","r","e","s","s","i","o","n","s">>), StrCell(<<"L","a","n","g","Y">>)>>,
         <<StrCell(<<"o","n","e">>), IntCell(1, "0")>> >>,
      << <<StrCell(<<"E","x","p","r","e","s","s","i","o","n","s">>), StrCell(<<"L","a","n","g","Y">>)>>,
         <<StrCell(<<"h","a","l","f">>), FloatCell(5000, "# ?/?")>> >> }

RowsFrom(master, max) ==
    { Pick(master, S) : S \in {T \in SUBSET DOMAIN master : Cardinality(T) <= max} }

InitDownloadIdle ==
    /\ workbook = <<>>
    /\ dl_pc = "idle"
    /\ sheet_i = 0
    /\ row_i = 0
    /\ files = NoDict
    /\ raised = FALSE

InitDownload ==
    /\ \E first \in RowsFrom(CellRowMaster, MaxSheetRows),
          second \in SecondSheetChoices :
          workbook = << [title |-> SheetTitles[1], rows |-> first],
                        [title |-> SheetTitles[2], rows |-> second] >>
    /\ dl_pc = "start"
    /\ sheet_i = 0
    /\ row_i = 0
    /\ files = NoDict
    /\ raised = FALSE

\* The part of the csv file's name that names the sheet.
Suffix(sheet) == slug(sheet.title, FALSE)

\* Lines 247-301: make the directory, load the workbook.
LoadWorkbook ==
    /\ dl_pc = "start"
    /\ sheet_i' = 1
    /\ dl_pc' = IF workbook = <<>> THEN "done" ELSE "open"
    /\ UNCHANGED <<workbook, row_i, files, raised>>
    /\ UNCHANGED <<foldVars, makeVars>>

\* Line 305: open(csv_file, 'w') creates the file, or empties it.
OpenFile ==
    /\ dl_pc = "open"
    /\ files' = [f \in DOMAIN files \cup {Suffix(workbook[sheet_i])} |->
                    IF f = Suffix(workbook[sheet_i]) THEN <<>> ELSE files[f]]
    /\ row_i' = 0
    /\ dl_pc' = "write"
    /\ UNCHANGED <<workbook, sheet_i, raised>>
    /\ UNCHANGED <<foldVars, makeVars>>

\* Lines 307-309: writerows takes the next row of the generator, which maps
\* _cell_str over the row's cells, and writes it; an exception of _cell_str
\* leaves the `with` block, which closes the file, and ends the run.
WriteRow ==
    /\ dl_pc = "write"
    /\ row_i < Len(workbook[sheet_i].rows)
    /\ LET row == workbook[sheet_i].rows[row_i + 1]
           strs == [c \in DOMAIN row |-> _cell_str(row[c])]
       IN  IF \E c \in DOMAIN row : ~strs[c].ok
           THEN /\ raised' = TRUE
                /\ dl_pc' = "failed"
                /\ UNCHANGED <<files, row_i>>
           ELSE /\ files' = [files EXCEPT ![Suffix(workbook[sheet_i])] =
                                Append(@, [c \in DOMAIN row |-> strs[c].str])]
                /\ row_i' = row_i + 1
                /\ UNCHANGED <<raised, dl_pc>>
    /\ UNCHANGED <<workbook, sheet_i>>
    /\ UNCHANGED <<foldVars, makeVars>>

\* The generator is exhausted: the `with` block closes the file and the loop
\* goes to the next sheet.
CloseFile ==
    /\ dl_pc = "write"
    /\ row_i = Len(workbook[sheet_i].rows)
    /\ sheet_i' = sheet_i + 1
    /\ dl_pc' = IF sheet_i = Len(workbook) THEN "done" ELSE "open"
    /\ UNCHANGED <<workbook, row_i, files, raised>>
    /\ UNCHANGED <<foldVars, makeVars>>

----------------------------------------------------------------------------
(* fold_name applied to a label, and again to its result *)

FoldLabels ==
    DOMAIN TYPO_MAP
    \cup {TYPO_MAP[k] : k \in DOMAIN TYPO_MAP}
    \cup {<<"o","n","e">>, <<"o","n","e"," ","(","e","x",")">>, <<"E","x","p","r","e","s","s","i","o","n","s">>, <<"C","a","r","d","i","n","a","l","s"," ","(","V","a","l","u","e","s",")">>, <<>>, <<"1","/","1","6">>}

\* The ways a label is written in a sheet: as it is, capitalised, with blanks
\* and punctuation around it, with an accent and a no-break space, with a
\* fullwidth capital and a vulgar fraction.
Written(label, how) ==
    CASE how = 1 -> label
      [] how = 2 -> IF label # <<>> /\ label[1] \in Range(LowerLetters)
                    THEN <<UpperLetters[Index(LowerLetters, label[1])]>> \o Tail(label)
                    ELSE label
      [] how = 3 -> <<" ","(">> \o label \o <<")"," ","!">>
      [] how = 4 -> label \o <<"U+00A0","U+00E9">>
      [] how = 5 -> <<"U+FF21","U+00BD">> \o label
      [] OTHER -> <<"TAB">> \o label \o <<"-">>

InitFold ==
    /\ \E label \in FoldLabels, how \in 1..6 : name = Written(label, how)
    /\ folds = <<>>
    /\ InitMakeIdle
    /\ InitDownloadIdle

\* fold_name(name), then fold_name of what it returned.
Fold ==
    /\ Len(folds) < 2
    /\ folds' = Append(folds, fold_name(IF folds = <<>> THEN name ELSE folds[Len(folds)]))
    /\ UNCHANGED name
    /\ UNCHANGED <<makeVars, downloadVars>>

----------------------------------------------------------------------------
(* The specifications *)

Init ==
    \/ InitMake /\ InitDownloadIdle /\ InitFoldIdle
    \/ InitDownload /\ InitMakeIdle /\ InitFoldIdle

Next ==
    \/ BuildTables
    \/ Validate
    \/ MakeExampleTable
    \/ AssocValueExamples
    \/ MakeValueTable
    \/ WriteDataset
    \/ LoadWorkbook
    \/ OpenFile
    \/ WriteRow
    \/ CloseFile

Spec == Init /\ [][Next]_vars

NextFold == Fold

SpecFold == InitFold /\ [][NextFold]_vars

----------------------------------------------------------------------------
(* Properties *)

Sheets == Range(SheetOrder)
NameCol(table) == Index(table[1], Expressions)
Label(table, r) == normalise_whitespace(table[r][NameCol(table)])
Extracting == {"examples", "assoc", "values", "write", "done"}

\* A data row whose label nothing recognizes.
Unrecognized(table, r) ==
    LET label == Label(table, r)
    IN  /\ label # <<>>
        /\ fold_name(label) \notin DOMAIN parameter_names
        /\ fold_name(label) \notin DOMAIN example_names
        /\ label \notin section_headers

UnrecognizedRows(table) == {r \in 2..Len(table) : Unrecognized(table, r)}

\* The n-th smallest element of a set of numbers.
Nth(S, n) == CHOOSE r \in S : Cardinality({q \in S : q <= r}) = n

\* C1: validate_sheet fails for a sheet if and only if some data row has a
\* non-empty normalized label that is in neither reference table and is no
\* section header; the message then lists exactly those labels of that sheet,
\* all of them, in row order.
C1_ValidateReportsAll ==
    /\ \A k \in 1..validated : UnrecognizedRows(data[SheetOrder[k]]) = {}
    /\ exc = "AssertionError" =>
           LET table == data[SheetOrder[validated + 1]]
               bad == UnrecognizedRows(table)
           IN  /\ bad # {}
               /\ Len(errors) = Cardinality(bad)
               /\ \A n \in DOMAIN errors : errors[n] = Label(table, Nth(bad, n))
    /\ exc # "AssertionError" => errors = <<>>

\* A sheet that follows an accepted one fails with two different labels,
\* while a third row of it is accepted.
C1_Witness ==
    /\ exc = "AssertionError"
    /\ validated >= 1
    /\ Len(errors) = 2
    /\ errors[1] # errors[2]
    /\ Len(data[SheetOrder[validated + 1]]) > 3

IDs(table) == [n \in DOMAIN table |-> table[n].ID]
Distinct(s) == \A a, b \in DOMAIN s : a # b => s[a] # s[b]

\* C2: when all six sheets pass validation, no two rows of the value table
\* share an ID and no two rows of the example table share an ID.  (Stated for
\* the inputs in which no parameter is labelled like the header, so that no
\* header row adds a value row.)
C2_IdentifiersUnique ==
    (pc = "done" /\ fold_name(Expressions) \notin DOMAIN parameter_names) =>
        /\ Distinct(IDs(writer.objects.ValueTable))
        /\ Distinct(IDs(writer.objects.ExampleTable))

ExampleCellsOf(s) ==
    example_cells(data[s], example_names, language_names, SheetTitle[s])
ValueCellsOf(s) == value_cells(data[s], parameter_names, language_names)
Emitted(cells, r, i) ==
    Cardinality({n \in DOMAIN cells : cells[n].r = r /\ cells[n].i = i})

\* C3: in an accepted sheet, make_examples and make_values together emit at
\* most one row for a (row, column) pair: never a value row and an example row.
C3_AtMostOneRowPerCell ==
    validated = Len(SheetOrder) =>
        \A s \in Sheets : \A r \in DOMAIN data[s] : \A i \in DOMAIN data[s][1] :
            Emitted(ExampleCellsOf(s), r, i) + Emitted(ValueCellsOf(s), r, i) <= 1

\* The Indo-Aryan sheet defines the template "ex 1" / "one (ex)", and a row
\* of the Sino-Tibetan sheet with that label holds "eka udaharan" for LangX;
\* make_examples has run.
C4_Scenario ==
    /\ pc \in {"assoc", "values", "write", "done"}
    /\ \E r \in 2..Len(data["IndoAryan"]) :
          /\ data["IndoAryan"][r][1] = <<"e","x"," ","1">>
          /\ data["IndoAryan"][r][NameCol(data["IndoAryan"])] = <<"o","n","e"," ","(","e","x",")">>
    /\ \E r \in 2..Len(data["SinoTibetan"]) :
          /\ data["SinoTibetan"][r][NameCol(data["SinoTibetan"])] = <<"o","n","e"," ","(","e","x",")">>
          /\ data["SinoTibetan"][r][Index(data["SinoTibetan"][1], <<"L","a","n","g","X">>)]
                 = <<"e","k","a"," ","u","d","a","h","a","r","a","n">>

\* C4 as stated: in that scenario make_examples emits the row whose ID is
\* "LangX_ID-ekaudaharan", made from the slug of the cell's text.
C4_IdFromCellText ==
    C4_Scenario =>
        \E n \in DOMAIN example_table :
            example_table[n] = [ID |-> <<"L","a","n","g","X","_","I","D","-","e","k","a","u","d","a","h","a","r","a","n">>,
                                Language_ID |-> <<"L","a","n","g","X","_","I","D">>,
                                Primary_Text |-> <<"e","k","a"," ","u","d","a","h","a","r","a","n">>,
                                Translated_Text |-> <<"o","n","e"," ","(","e","x",")">>,
                                Parameter_ID |-> <<"1">>]

\* C4: in that scenario make_examples emits the row with ID "LangX_ID-oneex"
\* (the language id, a hyphen, the slug of the row's label), Language_ID
\* LangX_ID, Primary_Text "eka udaharan", Translated_Text "one (ex)" and
\* Parameter_ID "1".
C4_IdFromLabel ==
    C4_Scenario =>
        \E n \in DOMAIN example_table :
            example_table[n] = [ID |-> <<"L","a","n","g","X","_","I","D","-","o","n","e","e","x">>,
                                Language_ID |-> <<"L","a","n","g","X","_","I","D">>,
                                Primary_Text |-> <<"e","k","a"," ","u","d","a","h","a","r","a","n">>,
                                Translated_Text |-> <<"o","n","e"," ","(","e","x",")">>,
                                Parameter_ID |-> <<"1">>]

C4_Witness == C4_Scenario /\ pc = "done" /\ Len(example_table) > 1

\* The value rows the claim describes for one sheet: data rows only, in row
\* order then column order.
ExpectedValues(table) ==
    LET header == table[1]
    IN  Concat([r0 \in 1..(Len(table) - 1) |->
            LET r == r0 + 1
                key == fold_name(table[r][NameCol(table)])
            IN  IF key \in DOMAIN parameter_names
                THEN Concat([i0 \in 1..(Len(header) - 1) |->
                        LET i == i0 + 1
                            cell == normalise_whitespace(table[r][i])
                        IN  IF /\ i # NameCol(table)
                               /\ Get(language_names, header[i], <<>>) # <<>>
                               /\ cell # <<>>
                               /\ cell # <<"-">>
                            THEN <<[ID |-> parameter_names[key].id \o <<"-">>
                                               \o language_names[header[i]],
                                    Language_ID |-> language_names[header[i]],
                                    Parameter_ID |-> parameter_names[key].id,
                                    Value |-> cell]>>
                            ELSE <<>>])
                ELSE <<>>])

WithoutExamples(v) ==
    [ID |-> v.ID, Language_ID |-> v.Language_ID, Parameter_ID |-> v.Parameter_ID,
     Value |-> v.Value]

\* C5: make_values emits one value row for each (data row with a parameter
\* label, mapped language column) pair whose cell is neither empty nor "-",
\* and no value row from anything else, the header row included.
C5_ValuesFromDataRowsOnly ==
    pc \in {"write", "done"} =>
        Concat([n \in DOMAIN value_table |-> <<WithoutExamples(value_table[n])>>])
            = Concat([k \in DOMAIN SheetOrder |-> ExpectedValues(data[SheetOrder[k]])])

Placeholder(text) == normalise_whitespace(text) \in {<<>>, <<"-">>}

\* C6: a cell whose normalized content is empty or "-" produces no value row
\* and no example row.
C6_PlaceholderNeverEmitted ==
    /\ \A n \in DOMAIN example_table : ~Placeholder(example_table[n].Primary_Text)
    /\ \A n \in DOMAIN value_table : ~Placeholder(value_table[n].Value)
    /\ pc \in Extracting =>
           \A s \in Sheets :
               \A c \in Range(ExampleCellsOf(s)) \cup Range(ValueCellsOf(s)) :
                   ~Placeholder(data[s][c.r][c.i])
    /\ pc \in {"assoc", "values", "write", "done"} =>
           Len(example_table) = Len(Concat([k \in DOMAIN SheetOrder |->
                                               ExampleCellsOf(SheetOrder[k])]))
    /\ pc \in {"write", "done"} =>
           Len(value_table) = Len(Concat([k \in DOMAIN SheetOrder |->
                                             ValueCellsOf(SheetOrder[k])]))

\* The dataset was written from a sheet in which a parameter row and an
\* example row each hold "-" under a known language.
C6_Witness ==
    /\ pc = "done"
    /\ \E s \in Sheets : \E r, q \in 2..Len(data[s]) : \E i \in DOMAIN data[s][1] :
          /\ Get(language_names, data[s][1][i], <<>>) # <<>>
          /\ fold_name(Label(data[s], r)) \in DOMAIN parameter_names
          /\ fold_name(Label(data[s], q)) \in DOMAIN example_names
          /\ normalise_whitespace(data[s][r][i]) = <<"-">>
          /\ normalise_whitespace(data[s][q][i]) = <<"-">>

\* C7: fold_name(fold_name(x)) = fold_name(x); no correction target of
\* TYPO_MAP is a key of it, and each is a fixed point of slug.
C7_FoldIdempotent ==
    /\ Len(folds) = 2 => folds[2] = folds[1]
    /\ \A k \in DOMAIN TYPO_MAP :
           /\ TYPO_MAP[k] \notin DOMAIN TYPO_MAP
           /\ slug(TYPO_MAP[k], TRUE) = TYPO_MAP[k]

\* A label that is not its own slug and whose slug is corrected was folded twice.
C7_Witness ==
    /\ Len(folds) = 2
    /\ slug(name, TRUE) \in DOMAIN TYPO_MAP
    /\ name # slug(name, TRUE)
    /\ folds[1] # slug(name, TRUE)

MatchingExampleIDs(v, examples) ==
    LET mine == SelectSeq(examples,
                    LAMBDA e : /\ e.Language_ID = v.Language_ID
                               /\ e.Parameter_ID = v.Parameter_ID)
    IN  Concat([n \in DOMAIN mine |-> <<mine[n].ID>>])

C9_NoPartialOutput ==
    /\ (example_table # <<>> \/ value_table # <<>>) => validated = Len(SheetOrder)
    /\ DOMAIN writer.objects # {} => pc = "done" /\ exc = ""
    /\ exc # "" => DOMAIN writer.objects = {}
    /\ raised => \A f \in DOMAIN files : files[f] = <<>>

AllowedFormats ==
    [int |-> {"General", "# ?/?"},
     float |-> {"General", "# ?/?", "# ??/16"},
     datetime |-> {"m/d"}]

UnrecognizedFormat(cell) ==
    /\ cell.type \in DOMAIN AllowedFormats
    /\ cell.number_format \notin AllowedFormats[cell.type]

\* C10: _cell_str raises for every int, float or date cell whose format is
\* not enumerated for its type, zero included, so no row with such a cell is
\* ever written; and an int cell with an enumerated format is written as the
\* decimal string of the integer.
C10_CellStrRejectsUnknownFormats ==
    \A k \in DOMAIN workbook :
        Suffix(workbook[k]) \in DOMAIN files =>
            \A r \in DOMAIN files[Suffix(workbook[k])] :
                \A c \in DOMAIN workbook[k].rows[r] :
                    LET cell == workbook[k].rows[r][c]
                    IN  /\ ~UnrecognizedFormat(cell)
                        /\ cell.type = "int" =>
                               files[Suffix(workbook[k])][r][c] = IntToStr(cell.num)

====
